---- MODULE Spec2Model ----
(***************************************************************************)
(* Rise explorer client and data extractor.                                *)
(*                                                                         *)
(*   RiseExplorerClient._make_request   (rise explorer extraction.py)      *)
(*   DataExtractor.extract_*            (data_extractor.py)                *)
(*                                                                         *)
(* One run of the model is one operation: either a direct call of          *)
(* _make_request under an arbitrary RiseExplorerConfig, or one extraction  *)
(* of a DataExtractor, whose client always has the default configuration   *)
(* (DataExtractor.__init__ builds RiseExplorerClient() without a config).  *)
(* The remote server is the environment: every HTTP attempt either fails   *)
(* with a transport error or yields a decoded body {status, result}.       *)
(* File names carry a wall-clock timestamp in the code; the model keeps    *)
(* the format, the subdirectory, the descriptor and the data of a file.    *)
(***************************************************************************)
EXTENDS Integers, Sequences, FiniteSets

VARIABLES
    op,                   \* the operation this run performs
    pc,                   \* position inside the operation
    max_retries,          \* RiseExplorerConfig.max_retries
    retry_delay,          \* RiseExplorerConfig.retry_delay
    cap,                  \* max_transactions / max_transfers / max_holders
    include_transactions, \* extract_account_data argument
    include_tokens,       \* extract_account_data argument
    start_block,          \* extract_block_range argument
    end_block,            \* extract_block_range argument
    acc,                  \* all_transactions / all_transfers / all_holders / block_data
    page,                 \* page counter of the accumulation loop
    offset,               \* page size sent with every page request
    block_num,            \* loop variable of extract_block_range
    aux,                  \* token_info (token holders) / stats keys (network stats)
    log,                  \* every client call made so far, with its outcome
    files,                \* files written so far, in order
    saved_files,          \* keys of the saved_files dictionary
    error,                \* the exception that ended the operation, if any
    script,               \* direct call: the per-attempt outcomes the server gave
    last,                 \* direct call: what _make_request did
    records,              \* direct _save_csv call: its data argument
    csv_written,          \* direct _save_csv call: what the csv writer wrote
    exited,               \* CLI: the process has ended
    exit_status,          \* CLI: the status the process ended with
    message,              \* CLI: the last line printed
    twin,                 \* the same run with its last page answered the other way
    scope,                \* CLI: inside the handler's with block, or left it
    closed                \* how many times the client session was closed

vars == <<op, pc, max_retries, retry_delay, cap, include_transactions,
          include_tokens, start_block, end_block, acc, page, offset, block_num,
          aux, log, files, saved_files, error, script, last, records,
          csv_written, exited, exit_status, message, twin, scope, closed>>

argvars == <<op, max_retries, retry_delay, cap, include_transactions,
             include_tokens, start_block, end_block, records>>

\* written only by the operations that are not an extraction
clivars == <<csv_written, exited, exit_status, message, scope, closed>>

\* written by no step of an operation that does not paginate
outvars == <<csv_written, exited, exit_status, message, scope, closed, twin>>

-----------------------------------------------------------------------------
(* Bounds of the model *)

MaxRetriesBound == 3
MaxDelay == 2
MaxCap == 3
MaxPageLen == 2
MaxBlocks == 3
MaxCsvRecords == 2
MaxPages == 2

(* Program constants *)

DefaultMaxRetries == 3
DefaultRetryDelay == 1
MaxPageSize == 100
TransferPageSize == 100

StartBlocks == {100, 101}
\* the caps of a run: negative, zero, small, and one above the maximum page size
Caps == {0 - 1} \cup (0 .. MaxCap) \cup {MaxPageSize + 1}

-----------------------------------------------------------------------------
(* Python helpers *)

Min(a, b) == IF a < b THEN a ELSE b
Max(a, b) == IF a > b THEN a ELSE b

\* s[:n] of a Python list, negative n included
PySlice(s, n) ==
    IF n >= 0 THEN SubSeq(s, 1, Min(n, Len(s)))
    ELSE SubSeq(s, 1, Max(Len(s) + n, 0))

\* list.extend
Extend(s, t) == s \o t

-----------------------------------------------------------------------------
(* The server: what one HTTP attempt can give *)

TransportError == [http |-> "error", status |-> "", result |-> <<>>]

Body(st, res) == [http |-> "ok", status |-> st, result |-> res]

\* the records of a page are distinct: the page that served them and the position
PageRecords(p, n) == [i \in 1 .. n |-> <<p, i>>]

\* a list endpoint answers page p with a failure status (whose result field the
\* code never reads) or with 0..MaxPageLen records, whatever page size was asked
\* the pages of the server that hold records: one less in the run whose cap
\* is above the maximum page size
PagesHeld == IF cap > MaxCap THEN MaxPages - 1 ELSE MaxPages

ListBodies(p) ==
    {Body("0", PageRecords(p, n)) : n \in 0 .. 1}
    \cup {Body("1", PageRecords(p, n)) :
             n \in 0 .. (IF p <= PagesHeld THEN MaxPageLen ELSE 0)}

\* an endpoint with a single result
ScalarBodies(v) == {Body("0", <<>>), Body("1", <<v>>)}

Scripts(bodies, n) == [1 .. n -> {TransportError} \cup bodies]

-----------------------------------------------------------------------------
(* RiseExplorerClient._make_request *)

NoBody == [http |-> "none", status |-> "", result |-> <<>>]
NoExc == [type |-> "none", attempt |-> 0]

\* the RequestException raised by the HTTP attempt with 0-based index attempt
AttemptError(attempt) == [type |-> "RequestException", attempt |-> attempt + 1]

\* raise requests.exceptions.RequestException("Max retries exceeded")
MaxRetriesExceeded == [type |-> "Max retries exceeded", attempt |-> 0]

\* what a call did, in order: session.get/post number n, time.sleep(n)
Http(n) == [e |-> "http", n |-> n]
Sleep(n) == [e |-> "sleep", n |-> n]

Returned(body, events) ==
    [kind |-> "return", body |-> body, exc |-> NoExc, events |-> events]

Raised(exc, events) ==
    [kind |-> "raise", body |-> NoBody, exc |-> exc, events |-> events]

IsHttp(ev) == ev.e = "http"
IsSleep(ev) == ev.e = "sleep"

\* number of HTTP attempts of a call
AttemptsOf(r) == Len(SelectSeq(r.events, IsHttp))

\* the durations of the sleeps of a call, in order
SleepsOf(r) ==
    LET sl == SelectSeq(r.events, IsSleep)
    IN  [i \in 1 .. Len(sl) |-> sl[i].n]

\* variant: a constant delay instead of a linear backoff
backoff_delay_constant(delay, attempt) == delay

\* time.sleep(self.config.retry_delay * (attempt + 1))
backoff_delay(delay, attempt) == delay * (attempt + 1)

\* variant: sleeps after the final attempt as well
retry_after_failure_always(attempt, retries) == attempt < retries

\* if attempt < self.config.max_retries - 1
retry_after_failure(attempt, retries) == attempt < retries - 1

\* variant: a status "0" body is handled like a transport failure
returns_body_if_success(outcome) == outcome.http = "ok" /\ outcome.status = "1"

\* raise_for_status() and json() passed: the body is returned whatever its status
returns_body(outcome) == outcome.http = "ok"

\* variant: no raise after the loop, the function falls off its end
loop_exhausted_returns_none(events) == Returned(NoBody, events)

\* the statement after the for loop
loop_exhausted(events) == Raised(MaxRetriesExceeded, events)

RECURSIVE attempt_loop(_, _, _, _, _)
attempt_loop(s, attempt, events, retries, delay) ==
    IF attempt >= retries
    THEN loop_exhausted(events)
    ELSE LET ev == Append(events, Http(attempt + 1))
         IN  IF returns_body(s[attempt + 1])
             THEN Returned(s[attempt + 1], ev)
             ELSE IF retry_after_failure(attempt, retries)
                  THEN attempt_loop(s, attempt + 1,
                                    Append(ev, Sleep(backoff_delay(delay, attempt))),
                                    retries, delay)
                  ELSE Raised(AttemptError(attempt), ev)

\* s: the outcome of each HTTP attempt the server would give, in order
_make_request(s, retries, delay) == attempt_loop(s, 0, <<>>, retries, delay)

-----------------------------------------------------------------------------
(* DataExtractor._save_json / _save_csv *)

File(fmt, subdir, name, data) ==
    [fmt |-> fmt, subdir |-> subdir, name |-> name, data |-> data]

\* json.dump(data, f): always writes
_save_json(fs, data, name, subdir) == Append(fs, File("json", subdir, name, data))

\* if not data: return None
_save_csv(fs, data, name, subdir) ==
    IF data = <<>> THEN fs ELSE Append(fs, File("csv", subdir, name, data))

\* the keys a record may have, in the order sorted() gives them
KeyOrder == <<"a", "b", "c">>

Keys == {KeyOrder[i] : i \in 1 .. Len(KeyOrder)}

\* a record: a dictionary from some of the keys to cell values
CsvRecords == UNION {[ks -> {"1", "2"}] : ks \in SUBSET Keys}

CsvInputs == UNION {[1 .. n -> CsvRecords] : n \in 0 .. MaxCsvRecords}

\* keys = set(); for record in data: keys.update(record.keys())
all_keys(data) == UNION {DOMAIN data[i] : i \in 1 .. Len(data)}

IsIn(ks) == [k \in Keys |-> k \in ks]

\* sorted(keys)
sorted(ks) == LET member == IsIn(ks) IN SelectSeq(KeyOrder, LAMBDA k : member[k])

\* variant: the header is taken from the first record only
fieldnames_of_first(data) == sorted(DOMAIN data[1])

\* keys = sorted(keys); csv.DictWriter(f, fieldnames=keys)
fieldnames(data) == sorted(all_keys(data))

\* DictWriter row of one record: restval '' for a key the record lacks; a
\* record with a key that is no field name makes the writer raise ValueError
writerow(rec, names) ==
    [k \in 1 .. Len(names) |->
        IF names[k] \in DOMAIN rec THEN rec[names[k]] ELSE ""]

NoCsv == [written |-> FALSE, header |-> <<>>, rows |-> <<>>]

\* writer.writeheader(); writer.writerows(data)
csv_content(data) ==
    LET names == fieldnames(data)
    IN  [written |-> TRUE,
         header |-> names,
         rows |-> [i \in 1 .. Len(data) |-> writerow(data[i], names)]]

-----------------------------------------------------------------------------
(* Client calls of the extractor *)

Call(action, p, o, b, res) ==
    [action |-> action, page |-> p, offset |-> o, blockno |-> b, res |-> res]

ClientResults(bodies) ==
    {_make_request(s, max_retries, retry_delay) : s \in Scripts(bodies, max_retries)}

\* variant: the status field is not looked at
is_success_any(res) == TRUE

\* tx_result.get('status') == '1'
is_success(res) == res.body.status = "1"

-----------------------------------------------------------------------------
(* Initial states *)

\* no second run is followed before a page ends the loop without data
NoTwin == [on |-> FALSE, pc |-> "start", acc |-> <<>>, page |-> 0, files |-> <<>>]

InitCommon ==
    /\ pc = "start"
    /\ acc = <<>>
    /\ page = 0
    /\ offset = 0
    /\ block_num = 0
    /\ aux = <<>>
    /\ log = <<>>
    /\ files = <<>>
    /\ saved_files = {}
    /\ error = NoExc
    /\ script = <<>>
    /\ last = Raised(NoExc, <<>>)
    /\ csv_written = NoCsv
    /\ exited = FALSE
    /\ exit_status = 0
    /\ message = ""
    /\ twin = NoTwin
    /\ scope = "with"
    /\ closed = 0

\* A direct call runs under any configuration the dataclass accepts for which
\* the statements of _make_request are defined: max_retries may be 0 or
\* negative (range() is then empty), retry_delay is a duration >= 0
\* (time.sleep rejects a negative one).
InitRequest ==
    /\ op = "request"
    /\ max_retries \in {0 - 1} \cup (0 .. MaxRetriesBound)
    /\ retry_delay \in 0 .. MaxDelay
    /\ cap = 0
    /\ include_transactions = FALSE
    /\ include_tokens = FALSE
    /\ start_block = 0
    /\ end_block = 0
    /\ records = <<>>

InitExtractor ==
    /\ op \in {"account", "token_transfers", "block_range", "token_holders",
               "network_stats", "contract"}
    /\ max_retries = DefaultMaxRetries
    /\ retry_delay = DefaultRetryDelay
    /\ cap \in (IF op \in {"account", "token_transfers", "token_holders"}
                THEN Caps ELSE {0})
    /\ include_transactions \in (IF op = "account" THEN BOOLEAN ELSE {FALSE})
    /\ include_tokens \in (IF op = "account" THEN BOOLEAN ELSE {FALSE})
    \* the cap above the maximum page size is run by "transactions" only
    /\ cap > MaxCap => op = "account" /\ include_transactions /\ ~include_tokens
    \* transactions followed by the token list are run with the smallest caps
    /\ (include_transactions /\ include_tokens) => cap <= 1
    /\ start_block \in (IF op = "block_range" THEN StartBlocks ELSE {0})
    /\ end_block \in (IF op = "block_range"
                      THEN (start_block - 2) .. (start_block + MaxBlocks - 1)
                      ELSE {0})
    /\ records = <<>>

\* A direct call of _save_csv on a list of up to MaxCsvRecords dictionaries
InitSaveCsv ==
    /\ op = "save_csv"
    /\ max_retries = DefaultMaxRetries
    /\ retry_delay = DefaultRetryDelay
    /\ cap = 0
    /\ include_transactions = FALSE
    /\ include_tokens = FALSE
    /\ start_block = 0
    /\ end_block = 0
    /\ records \in CsvInputs

Init == InitCommon /\ (InitRequest \/ InitExtractor \/ InitSaveCsv)

-----------------------------------------------------------------------------
(* A direct call of _make_request *)

DirectRequest ==
    /\ op = "request"
    /\ pc = "start"
    /\ \E s \in Scripts({Body("1", <<"data">>), Body("0", <<>>)}, max_retries) :
          /\ script' = s
          /\ last' = _make_request(s, max_retries, retry_delay)
    /\ pc' = IF last'.kind = "return" THEN "done" ELSE "raised"
    /\ error' = last'.exc
    /\ UNCHANGED <<argvars, outvars, acc, page, offset, block_num, aux, log, files,
                   saved_files>>

-----------------------------------------------------------------------------
(* A direct call of _save_csv *)

SaveCsv ==
    /\ op = "save_csv"
    /\ pc = "start"
    /\ files' = _save_csv(files, records, "data", "")
    /\ csv_written' = IF records = <<>> THEN NoCsv ELSE csv_content(records)
    /\ pc' = "done"
    /\ UNCHANGED <<argvars, acc, page, offset, block_num, aux, log, saved_files,
                   error, script, last, exited, exit_status, message, twin,
                   scope, closed>>

-----------------------------------------------------------------------------
(* The pagination accumulation shared by extract_account_data,             *)
(* extract_token_transfers and extract_token_holders                       *)

\* variant: the loop also runs when the count has reached the cap
loop_continues_at_cap(a, c) == Len(a) <= c

\* while len(all_transactions) < max_transactions
loop_continues(a, c) == Len(a) < c

\* variant: the cap itself is sent as the page size
page_size_is_cap(c) == c

\* offset = min(100, max_transactions)
page_size(c) == Min(MaxPageSize, c)

\* variant: no truncation after the loop
truncate_nothing(a, c) == a

\* all_transactions = all_transactions[:max_transactions]
truncate(a, c) == PySlice(a, c)

\* variant: an empty page does not end the loop
page_is_empty_never(res) == FALSE

\* txs = tx_result.get('result', []); if not txs: break
page_is_empty(res) == res.body.result = <<>>

\* variant: the records of the page are dropped
accumulate_nothing(a, res) == a

\* variant: the new page is put in front of the earlier ones
accumulate_in_front(a, res) == Extend(res.body.result, a)

\* all_transactions.extend(txs)
accumulate(a, res) == Extend(a, res.body.result)

\* variant: the page counter is not advanced
next_page_same(p) == p

\* page += 1
next_page(p) == p + 1

\* variant: a status "0" response is raised as an error
call_raised_on_failure(res) == res.kind = "raise" \/ res.body.status = "0"

\* variant: an exception of the page request is swallowed inside the loop
call_raised_never(res) == FALSE

\* the page request is inside no try block: what it raises leaves the loop
call_raised(res) == res.kind = "raise"

\* the body of the while loop on the response res of its page request, from
\* the list a, the page counter p and the pending exception e
page_step(a, p, e, res) ==
    IF call_raised(res)
    THEN [pc |-> "raised", acc |-> a, page |-> p, error |-> res.exc]
    ELSE IF is_success(res) /\ ~page_is_empty(res)
         THEN [pc |-> "loop", acc |-> accumulate(a, res), page |-> next_page(p),
               error |-> e]
         ELSE [pc |-> "break", acc |-> a, page |-> p, error |-> e]

\* the response is a status "0" failure or a success with an empty list
ends_without_data(res) ==
    /\ res.kind = "return"
    /\ res.body.status = "0" \/ res.body.result = <<>>

\* the other response of the two: a success with an empty list for a failure,
\* a failure (whose body carries a record) for a success with an empty list
other_ending(res, p) ==
    [res EXCEPT !.body = IF res.body.status = "0" THEN Body("1", <<>>)
                         ELSE Body("0", PageRecords(p, 1))]

\* the second run, which got the same responses so far, takes the same
\* iteration on the other response
twin_page(res) ==
    IF ends_without_data(res)
    THEN LET st == page_step(acc, page, error, other_ending(res, page))
         IN  [on |-> TRUE, pc |-> st.pc, acc |-> st.acc, page |-> st.page,
              files |-> files]
    ELSE twin

\* one iteration of the while loop: the page request and what follows it
FetchPage(action) ==
    /\ pc = "loop"
    /\ loop_continues(acc, cap)
    /\ \E res \in ClientResults(ListBodies(page)) :
          LET st == page_step(acc, page, error, res)
          IN  /\ log' = Append(log, Call(action, page, offset, 0, res))
              /\ pc' = st.pc
              /\ acc' = st.acc
              /\ page' = st.page
              /\ error' = st.error
              /\ twin' = twin_page(res)
    /\ UNCHANGED <<argvars, clivars, offset, block_num, aux, files, saved_files,
                   script, last>>

\* the statement after the loop is reached by a break or by the loop condition
LoopHasEnded == pc = "break" \/ (pc = "loop" /\ ~loop_continues(acc, cap))

-----------------------------------------------------------------------------
(* DataExtractor.extract_account_data *)

GetBalance ==
    /\ op = "account"
    /\ pc = "start"
    /\ \E res \in ClientResults(ScalarBodies("wei")) :
          /\ log' = Append(log, Call("balance", 0, 0, 0, res))
          /\ IF res.kind = "raise"
             THEN /\ pc' = "raised"
                  /\ error' = res.exc
                  /\ UNCHANGED <<files, saved_files, acc, page, offset>>
             ELSE /\ files' = _save_json(files, res.body, "balance", "account")
                  /\ saved_files' = saved_files \cup {"balance"}
                  /\ error' = error
                  /\ IF include_transactions
                     THEN /\ acc' = <<>>
                          /\ page' = 1
                          /\ offset' = page_size(cap)
                          /\ pc' = "loop"
                     ELSE /\ pc' = IF include_tokens THEN "tokens" ELSE "done"
                          /\ UNCHANGED <<acc, page, offset>>
    /\ UNCHANGED <<argvars, outvars, block_num, aux, script, last>>

FetchTransactions ==
    /\ op = "account"
    /\ FetchPage("txlist")

\* the JSON file always, the CSV file if all_transactions
save_transactions(fs, data) ==
    LET js == _save_json(fs, data, "transactions", "account")
    IN  IF data # <<>> THEN _save_csv(js, data, "transactions", "account")
        ELSE js

\* the second run takes the step after its loop: truncation, files, position
twin_saved(fs, position) ==
    IF twin.on
    THEN [twin EXCEPT !.acc = truncate(twin.acc, cap), !.files = fs,
                      !.pc = position]
    ELSE twin

SaveTransactions ==
    /\ op = "account"
    /\ LoopHasEnded
    /\ acc' = truncate(acc, cap)
    /\ files' = save_transactions(files, acc')
    /\ twin' = twin_saved(save_transactions(twin.files, truncate(twin.acc, cap)),
                          IF include_tokens THEN "tokens" ELSE "done")
    /\ saved_files' = saved_files \cup {"transactions_json"}
                      \cup (IF acc' # <<>> THEN {"transactions_csv"} ELSE {})
    /\ pc' = IF include_tokens THEN "tokens" ELSE "done"
    /\ UNCHANGED <<argvars, clivars, page, offset, block_num, aux, log, error, script,
                   last>>

\* if tokens_result.get('status') == '1': the JSON file, the CSV file if tokens
token_files(fs, res) ==
    IF is_success(res)
    THEN LET tokens == res.body.result
             js == _save_json(fs, tokens, "tokens", "account")
         IN  IF tokens # <<>> THEN _save_csv(js, tokens, "tokens", "account")
             ELSE js
    ELSE fs

GetTokenList ==
    /\ op = "account"
    /\ pc = "tokens"
    /\ \E res \in ClientResults(ListBodies(0)) :
          /\ log' = Append(log, Call("tokenlist", 0, 0, 0, res))
          /\ IF res.kind = "raise"
             THEN /\ pc' = "raised"
                  /\ error' = res.exc
                  /\ twin' = IF twin.on THEN [twin EXCEPT !.pc = "raised"]
                             ELSE twin
                  /\ UNCHANGED <<files, saved_files>>
             ELSE /\ pc' = "done"
                  /\ error' = error
                  /\ files' = token_files(files, res)
                  /\ twin' = IF twin.on
                             THEN [twin EXCEPT !.pc = "done",
                                               !.files = token_files(@, res)]
                             ELSE twin
                  /\ saved_files' =
                        IF is_success(res)
                        THEN saved_files \cup {"tokens_json"}
                             \cup (IF res.body.result # <<>>
                                   THEN {"tokens_csv"} ELSE {})
                        ELSE saved_files
    /\ UNCHANGED <<argvars, clivars, acc, page, offset, block_num, aux, script,
                   last>>

-----------------------------------------------------------------------------
(* DataExtractor.extract_token_transfers *)

EnterTokenTransfers ==
    /\ op = "token_transfers"
    /\ pc = "start"
    /\ acc' = <<>>
    /\ page' = 1
    /\ offset' = TransferPageSize
    /\ pc' = "loop"
    /\ UNCHANGED <<argvars, outvars, block_num, aux, log, files, saved_files, error,
                   script, last>>

FetchTransfers ==
    /\ op = "token_transfers"
    /\ FetchPage("tokentx")

\* variant: the JSON file is written for an empty result too
save_list_always(fs, data, name, subdir) ==
    _save_csv(_save_json(fs, data, name, subdir), data, name, subdir)

\* if all_transfers: both files, else none
save_list_if_any(fs, data, name, subdir) ==
    IF data # <<>>
    THEN _save_csv(_save_json(fs, data, name, subdir), data, name, subdir)
    ELSE fs

saved_keys_if_any(data) == IF data # <<>> THEN {"json", "csv"} ELSE {}

SaveTransfers ==
    /\ op = "token_transfers"
    /\ LoopHasEnded
    /\ acc' = truncate(acc, cap)
    /\ files' = save_list_if_any(files, acc', "token_transfers", "token_transfers")
    /\ twin' = twin_saved(save_list_if_any(twin.files, truncate(twin.acc, cap),
                                           "token_transfers", "token_transfers"),
                          "done")
    /\ saved_files' = saved_files \cup saved_keys_if_any(acc')
    /\ pc' = "done"
    /\ UNCHANGED <<argvars, clivars, page, offset, block_num, aux, log, error, script,
                   last>>

-----------------------------------------------------------------------------
(* DataExtractor.extract_token_holders *)

GetTokenInfo ==
    /\ op = "token_holders"
    /\ pc = "start"
    /\ \E res \in ClientResults(ScalarBodies("token")) :
          /\ log' = Append(log, Call("getToken", 0, 0, 0, res))
          /\ IF res.kind = "raise"
             THEN /\ pc' = "raised"
                  /\ error' = res.exc
                  /\ UNCHANGED <<aux, acc, page, offset>>
             ELSE /\ aux' = IF is_success(res) THEN res.body.result ELSE <<>>
                  /\ acc' = <<>>
                  /\ page' = 1
                  /\ offset' = page_size(cap)
                  /\ pc' = "loop"
                  /\ error' = error
    /\ UNCHANGED <<argvars, outvars, block_num, files, saved_files, script, last>>

FetchHolders ==
    /\ op = "token_holders"
    /\ FetchPage("getTokenHolders")

HoldersData(info, holders) ==
    [token_info |-> info, holders |-> holders,
     total_holders_fetched |-> Len(holders)]

\* if all_holders: the JSON file of the token and its holders, and the CSV file
save_holders(fs, info, holders) ==
    IF holders # <<>>
    THEN _save_csv(_save_json(fs, HoldersData(info, holders), "token_holders",
                              "token_holders"),
                   holders, "token_holders", "token_holders")
    ELSE fs

SaveHolders ==
    /\ op = "token_holders"
    /\ LoopHasEnded
    /\ acc' = truncate(acc, cap)
    /\ files' = save_holders(files, aux, acc')
    /\ twin' = twin_saved(save_holders(twin.files, aux, truncate(twin.acc, cap)),
                          "done")
    /\ saved_files' = saved_files \cup saved_keys_if_any(acc')
    /\ pc' = "done"
    /\ UNCHANGED <<argvars, clivars, page, offset, block_num, aux, log, error, script,
                   last>>

-----------------------------------------------------------------------------
(* DataExtractor.extract_block_range *)

BlockRecord(n) == [number |-> n]

\* a failure body carries no block (its result is never read by the code)
BlockBodies(n) == {Body("0", BlockRecord(0)), Body("1", BlockRecord(n))}

\* variant: the range also covers the block after end_block
in_range_one_more(n, last_block) == n < last_block + 2

\* for block_num in range(start_block, end_block + 1)
in_range(n, last_block) == n < last_block + 1

\* variant: the result of a failed fetch is collected too
collect_block_any(data, res) == Append(data, res.body.result)

\* if result.get('status') == '1': block_data.append(result.get('result', {}))
collect_block(data, res) ==
    IF is_success(res) THEN Append(data, res.body.result) ELSE data

EnterBlockRange ==
    /\ op = "block_range"
    /\ pc = "start"
    /\ acc' = <<>>
    /\ block_num' = start_block
    /\ pc' = "loop"
    /\ UNCHANGED <<argvars, outvars, page, offset, aux, log, files, saved_files, error,
                   script, last>>

FetchBlock ==
    /\ op = "block_range"
    /\ pc = "loop"
    /\ in_range(block_num, end_block)
    /\ \E res \in ClientResults(BlockBodies(block_num)) :
          /\ log' = Append(log, Call("getblockreward", 0, 0, block_num, res))
          /\ IF res.kind = "raise"
             THEN /\ pc' = "raised"
                  /\ error' = res.exc
                  /\ UNCHANGED <<acc, block_num>>
             ELSE /\ acc' = collect_block(acc, res)
                  /\ block_num' = block_num + 1
                  /\ UNCHANGED <<pc, error>>
    /\ UNCHANGED <<argvars, outvars, page, offset, aux, files, saved_files, script, last>>

SaveBlocks ==
    /\ op = "block_range"
    /\ pc = "loop"
    /\ ~in_range(block_num, end_block)
    /\ files' = save_list_if_any(files, acc, "blocks", "blocks")
    /\ saved_files' = saved_files \cup saved_keys_if_any(acc)
    /\ pc' = "done"
    /\ UNCHANGED <<argvars, outvars, acc, page, offset, block_num, aux, log, error,
                   script, last>>

-----------------------------------------------------------------------------
(* DataExtractor.extract_network_stats *)

\* the supply is a decimal string, or something int() rejects
SupplyBodies == {Body("0", <<>>), Body("1", <<"1000">>), Body("1", <<"n/a">>)}

\* int(supply_result.get('result', 0)) succeeds
int_parses(v) == v = <<"1000">>

ValueError == [type |-> "ValueError", attempt |-> 0]

GetEthSupply ==
    /\ op = "network_stats"
    /\ pc = "start"
    /\ \E res \in ClientResults(SupplyBodies) :
          /\ log' = Append(log, Call("ethsupply", 0, 0, 0, res))
          /\ IF res.kind = "raise"
             THEN /\ pc' = "raised"
                  /\ error' = res.exc
                  /\ aux' = aux
             ELSE IF is_success(res) /\ ~int_parses(res.body.result)
                  THEN /\ pc' = "raised"
                       /\ error' = ValueError
                       /\ aux' = <<"timestamp", "date", "eth_supply_wei">>
                  ELSE /\ pc' = "price"
                       /\ error' = error
                       /\ aux' = IF is_success(res)
                                 THEN <<"timestamp", "date", "eth_supply_wei",
                                        "eth_supply_eth">>
                                 ELSE <<"timestamp", "date">>
    /\ UNCHANGED <<argvars, outvars, acc, page, offset, block_num, files, saved_files,
                   script, last>>

GetCoinPrice ==
    /\ op = "network_stats"
    /\ pc = "price"
    /\ \E res \in ClientResults(ScalarBodies("usd")) :
          /\ log' = Append(log, Call("coinprice", 0, 0, 0, res))
          /\ IF res.kind = "raise"
             THEN /\ pc' = "raised"
                  /\ error' = res.exc
                  /\ UNCHANGED <<aux, files, saved_files>>
             ELSE /\ aux' = IF is_success(res) THEN Append(aux, "price") ELSE aux
                  /\ files' = _save_json(files, aux', "network_stats", "stats")
                  /\ saved_files' = saved_files \cup {"json"}
                  /\ pc' = "done"
                  /\ error' = error
    /\ UNCHANGED <<argvars, outvars, acc, page, offset, block_num, script, last>>

-----------------------------------------------------------------------------
(* DataExtractor.extract_contract_data *)

\* what the ABI field of the first contract of the response can be: JSON text,
\* no field at all, the empty string, text that is no JSON, or a value that is
\* no text (null, a list, a number)
AbiKinds == {"valid", "absent", "empty", "malformed", "not_text"}

ContractRecord(abi) == [SourceCode |-> "source", ABI |-> abi]

SourceBodies ==
    {Body("0", <<>>), Body("1", <<>>)}
    \cup {Body("1", <<ContractRecord(abi)>>) : abi \in AbiKinds}

\* json.loads(contract.get('ABI', '')): the parsed value, json.JSONDecodeError
\* for text that is no JSON (the default '' included), TypeError for a value
\* that is neither str nor bytes
json_loads(abi) ==
    CASE abi = "valid" -> "parsed"
      [] abi \in {"absent", "empty", "malformed"} -> "JSONDecodeError"
      [] OTHER -> "TypeError"

\* except json.JSONDecodeError
abi_error_is_caught(outcome) == outcome = "JSONDecodeError"

TypeError == [type |-> "TypeError", attempt |-> 0]

GetContractSource ==
    /\ op = "contract"
    /\ pc = "start"
    /\ \E res \in ClientResults(SourceBodies) :
          /\ log' = Append(log, Call("getsourcecode", 0, 0, 0, res))
          /\ IF res.kind = "raise"
             THEN /\ pc' = "raised"
                  /\ error' = res.exc
                  /\ UNCHANGED <<files, saved_files>>
             ELSE IF is_success(res) /\ res.body.result # <<>>
                  THEN LET contract == res.body.result[1]
                           full == _save_json(files, contract, "contract_full",
                                              "contract")
                           src == Append(full, File("sol", "contract", "source",
                                                    contract.SourceCode))
                           parsed == json_loads(contract.ABI)
                       IN  IF parsed = "parsed"
                           THEN /\ files' = Append(src, File("abi", "contract",
                                                             "abi", contract.ABI))
                                /\ saved_files' = saved_files \cup
                                      {"full_data", "source_code", "abi"}
                                /\ pc' = "done"
                                /\ error' = error
                           ELSE /\ files' = src
                                /\ saved_files' = saved_files \cup
                                      {"full_data", "source_code"}
                                /\ IF abi_error_is_caught(parsed)
                                   THEN pc' = "done" /\ error' = error
                                   ELSE pc' = "raised" /\ error' = TypeError
                  ELSE /\ pc' = "done"
                       /\ error' = error
                       /\ UNCHANGED <<files, saved_files>>
    /\ UNCHANGED <<argvars, outvars, acc, page, offset, block_num, aux, script,
                   last>>

-----------------------------------------------------------------------------
(* extractor.py: main and the subcommand handlers *)

\* the extraction each subcommand handler runs ("transactions" runs
\* extract_account_data with include_transactions and without include_tokens)
Subcommands ==
    {"account", "token_transfers", "contract", "block_range", "token_holders",
     "network_stats"}

KeyboardInterrupt == [type |-> "KeyboardInterrupt", attempt |-> 0]

\* the user interrupts the process while the handler is running
Interrupt ==
    /\ op \in Subcommands
    /\ pc \notin {"done", "raised"}
    /\ pc' = "raised"
    /\ error' = KeyboardInterrupt
    /\ twin' = IF twin.on THEN [twin EXCEPT !.pc = "raised"] ELSE twin
    /\ UNCHANGED <<argvars, clivars, acc, page, offset, block_num, aux, log,
                   files, saved_files, script, last>>

\* except KeyboardInterrupt
is_keyboard_interrupt(e) == e.type = "KeyboardInterrupt"

\* sys.exit(1) of the two except clauses
error_exit(text) == [status |-> 1, message |-> text]

main_exits_zero(e) ==
    [status |-> 0,
     message |-> IF e = NoExc THEN "Saved files"
                 ELSE IF is_keyboard_interrupt(e)
                      THEN "Extraction cancelled by user" ELSE "Error"]

\* try: args.func(args) / except KeyboardInterrupt / except Exception, where e
\* is what the handler raised (NoExc when it returned)
main(e) ==
    IF e = NoExc
    THEN [status |-> 0, message |-> "Saved files"]
    ELSE IF is_keyboard_interrupt(e)
         THEN error_exit("Extraction cancelled by user")
         ELSE error_exit("Error")

\* variant: the session is closed by a call at the end of the block, which
\* an exception skips
context_exit_on_return(n, e) == IF e = NoExc THEN n + 1 ELSE n

\* DataExtractor.__exit__ -> close -> RiseExplorerClient.close ->
\* session.close(), whatever exception e left the block
context_exit(n, e) == n + 1

\* the with block of the handler is left, by return or by an exception
ExitContext ==
    /\ op \in Subcommands
    /\ pc \in {"done", "raised"}
    /\ scope = "with"
    /\ scope' = "left"
    /\ closed' = context_exit(closed, IF pc = "raised" THEN error ELSE NoExc)
    /\ UNCHANGED <<argvars, pc, acc, page, offset, block_num, aux, log, files,
                   saved_files, error, script, last, csv_written, exited,
                   exit_status, message, twin>>

MainExit ==
    /\ op \in Subcommands
    /\ pc \in {"done", "raised"}
    /\ scope = "left"
    /\ ~exited
    /\ LET out == main(IF pc = "raised" THEN error ELSE NoExc)
       IN  /\ exited' = TRUE
           /\ exit_status' = out.status
           /\ message' = out.message
    /\ UNCHANGED <<argvars, pc, acc, page, offset, block_num, aux, log, files,
                   saved_files, error, script, last, csv_written, twin, scope,
                   closed>>

-----------------------------------------------------------------------------

Next ==
    \/ DirectRequest
    \/ SaveCsv
    \/ GetBalance
    \/ FetchTransactions
    \/ SaveTransactions
    \/ GetTokenList
    \/ EnterTokenTransfers
    \/ FetchTransfers
    \/ SaveTransfers
    \/ GetTokenInfo
    \/ FetchHolders
    \/ SaveHolders
    \/ EnterBlockRange
    \/ FetchBlock
    \/ SaveBlocks
    \/ GetEthSupply
    \/ GetCoinPrice
    \/ GetContractSource
    \/ Interrupt
    \/ ExitContext
    \/ MainExit

Spec == Init /\ [][Next]_vars

\* The accumulations alone, left to run: no interruption, and every client
\* call returns or raises, so that a step that can be taken is taken.
FairInit ==
    /\ InitCommon
    /\ InitExtractor
    /\ op \in {"account", "token_transfers", "token_holders"}
    /\ op = "account" => include_transactions /\ ~include_tokens

FairNext ==
    \/ GetBalance
    \/ FetchTransactions
    \/ SaveTransactions
    \/ EnterTokenTransfers
    \/ FetchTransfers
    \/ SaveTransfers
    \/ GetTokenInfo
    \/ FetchHolders
    \/ SaveHolders

FairSpec == FairInit /\ [][FairNext]_vars /\ WF_vars(FairNext)

-----------------------------------------------------------------------------
(* What the log says about an accumulation *)

IsPageCall(c) == c.action \in {"txlist", "tokentx", "getTokenHolders"}

\* the page requests issued so far, in order
PageCalls == SelectSeq(log, IsPageCall)

\* the page returned success status with a non-empty list
GoodPage(c) ==
    /\ c.res.kind = "return"
    /\ c.res.body.status = "1"
    /\ c.res.body.result # <<>>

\* the page returned success status with an empty list
EmptyPage(c) ==
    /\ c.res.kind = "return"
    /\ c.res.body.status = "1"
    /\ c.res.body.result = <<>>

\* the page returned status "0"
FailedPage(c) == c.res.kind = "return" /\ c.res.body.status = "0"

\* the records of the good pages of cs, in page order
RECURSIVE ConcatGood(_)
ConcatGood(cs) ==
    IF cs = <<>> THEN <<>>
    ELSE (IF GoodPage(Head(cs)) THEN Head(cs).res.body.result ELSE <<>>)
         \o ConcatGood(Tail(cs))

FirstN(s, n) == SubSeq(s, 1, Min(Max(n, 0), Len(s)))

\* the operation runs a pagination accumulation
Accumulates ==
    \/ op \in {"token_transfers", "token_holders"}
    \/ op = "account" /\ include_transactions

LastCall == log[Len(log)]

\* the accumulation is over and its result has been truncated
AccReturned ==
    /\ Accumulates
    /\ \/ pc \in {"tokens", "done"}
       \/ pc = "raised" /\ log # <<>> /\ LastCall.action = "tokenlist"

\* a page request of the accumulation raised
AccRaised ==
    /\ pc = "raised"
    /\ log # <<>>
    /\ IsPageCall(LastCall)
    /\ LastCall.res.kind = "raise"

DirectDone == op = "request" /\ pc # "start"

\* the first f attempts of the direct call fail with a transport error
FirstFail(f) == \A i \in 1 .. f : script[i] = TransportError

StrictlyIncreasing(s) == \A i \in 1 .. Len(s) - 1 : s[i] < s[i + 1]

HasFile(fmt, name) ==
    \E i \in 1 .. Len(files) : files[i].fmt = fmt /\ files[i].name = name

HasFileWith(fmt, name, data) ==
    \E i \in 1 .. Len(files) :
        /\ files[i].fmt = fmt
        /\ files[i].name = name
        /\ files[i].data = data

-----------------------------------------------------------------------------
(* C1 *)

\* C1 as stated: for every cap, the record sequence an accumulation holds after
\* it returns has length <= cap.
C1_LengthAtMostCap == AccReturned => Len(acc) <= cap

\* C1, amended: after an accumulation returns its result has length <= cap for
\* every cap >= 0, and is empty for a negative cap.
C1_LengthAtMostCapOrEmpty == AccReturned => Len(acc) <= Max(cap, 0)

\* a page held more records than the page size asked for and the result was cut
C1_Witness ==
    /\ AccReturned
    /\ cap >= 1
    /\ Len(acc) = cap
    /\ Len(ConcatGood(PageCalls)) > cap
    /\ \E i \in 1 .. Len(PageCalls) :
          Len(PageCalls[i].res.body.result) > PageCalls[i].offset

-----------------------------------------------------------------------------
(* C2 *)

\* C2: when pages 1..k are good pages totalling N < cap records and page k+1 is
\* an empty success page, page k+1 is the last request ever issued and the
\* result is exactly the N records of pages 1..k.
C2_EmptyPageEnds ==
    Accumulates =>
        \A j \in 1 .. Len(PageCalls) :
            ( /\ EmptyPage(PageCalls[j])
              /\ \A i \in 1 .. j - 1 : GoodPage(PageCalls[i])
              /\ Len(ConcatGood(SubSeq(PageCalls, 1, j - 1))) < cap )
            => /\ Len(PageCalls) = j
               /\ pc # "loop"
               /\ ~AccRaised
               /\ AccReturned => acc = ConcatGood(SubSeq(PageCalls, 1, j - 1))

C2_Witness ==
    /\ AccReturned
    /\ Len(PageCalls) = 3
    /\ GoodPage(PageCalls[1])
    /\ GoodPage(PageCalls[2])
    /\ EmptyPage(PageCalls[3])
    /\ Len(acc) = 2
    /\ Len(acc) < cap

-----------------------------------------------------------------------------
(* C3 *)

\* C3: when page 1 is a good page of fewer than cap records and page 2 returns
\* status "0", the accumulation does not raise, no page after page 2 is
\* requested, and the result is exactly the records of page 1.
C3_FailureOnPage2 ==
    ( /\ Accumulates
      /\ Len(PageCalls) >= 2
      /\ GoodPage(PageCalls[1])
      /\ Len(PageCalls[1].res.body.result) < cap
      /\ FailedPage(PageCalls[2]) )
    => /\ Len(PageCalls) = 2
       /\ pc # "loop"
       /\ ~AccRaised
       /\ AccReturned => acc = PageCalls[1].res.body.result

C3_Witness ==
    /\ AccReturned
    /\ pc = "done"
    /\ Len(PageCalls) = 2
    /\ GoodPage(PageCalls[1])
    /\ FailedPage(PageCalls[2])
    /\ PageCalls[2].res.body.result # <<>>
    /\ acc = PageCalls[1].res.body.result

-----------------------------------------------------------------------------
(* C4 *)

\* what C4 says of a call whose first f attempts fail and whose attempt f+1
\* succeeds, apart from the growth of the delays
C4_Retried(f) ==
    /\ last.kind = "return"
    /\ last.body = script[f + 1]
    /\ AttemptsOf(last) = f + 1
    /\ Len(SleepsOf(last)) = f
    /\ \A i \in 1 .. f : SleepsOf(last)[i] = retry_delay * i

\* C4 as stated: f failures then a success give the successful response after
\* f+1 attempts and f sleeps, the i-th of retry_delay * i, and the delays
\* strictly increase.
C4_BackoffStrictlyIncreases ==
    DirectDone =>
        \A f \in 0 .. max_retries - 1 :
            (FirstFail(f) /\ script[f + 1].http = "ok")
            => C4_Retried(f) /\ StrictlyIncreasing(SleepsOf(last))

\* C4, amended: the same, the delays strictly increasing when retry_delay > 0
\* (with retry_delay = 0 every sleep lasts 0).
C4_LinearBackoff ==
    DirectDone =>
        \A f \in 0 .. max_retries - 1 :
            (FirstFail(f) /\ script[f + 1].http = "ok")
            => /\ C4_Retried(f)
               /\ retry_delay > 0 => StrictlyIncreasing(SleepsOf(last))

\* max_retries = 3, two failures, then the response: sleeps of 1 and 2 delays
C4_Witness ==
    /\ DirectDone
    /\ max_retries = 3
    /\ retry_delay = 2
    /\ FirstFail(2)
    /\ script[3].http = "ok"
    /\ last.kind = "return"
    /\ SleepsOf(last) = <<retry_delay, 2 * retry_delay>>

-----------------------------------------------------------------------------
(* C5 *)

\* C5: with max_retries >= 1, a call whose every attempt fails makes exactly
\* max_retries attempts and max_retries - 1 sleeps, ends with the last attempt
\* (no sleep after it) and raises that attempt's error; no call makes more
\* than max_retries attempts.
C5_AllAttemptsFail ==
    /\ ( DirectDone /\ max_retries >= 1 /\ FirstFail(max_retries) )
       => /\ last.kind = "raise"
          /\ last.exc = AttemptError(max_retries - 1)
          /\ AttemptsOf(last) = max_retries
          /\ Len(SleepsOf(last)) = max_retries - 1
          /\ last.events[Len(last.events)] = Http(max_retries)
    /\ ( DirectDone /\ max_retries >= 1 ) => AttemptsOf(last) <= max_retries
    /\ \A i \in 1 .. Len(log) : AttemptsOf(log[i].res) <= max_retries

C5_Witness ==
    /\ DirectDone
    /\ max_retries = 3
    /\ FirstFail(3)
    /\ pc = "raised"
    /\ error = AttemptError(2)
    /\ Len(SleepsOf(last)) = 2

-----------------------------------------------------------------------------
(* C6 *)

\* C6: a successful exchange whose body has status "0" is returned unchanged by
\* the attempt that received it: no raise, no further attempt, no sleep after it.
C6_FailureStatusIsReturned ==
    DirectDone =>
        \A j \in 1 .. max_retries :
            ( /\ FirstFail(j - 1)
              /\ script[j].http = "ok"
              /\ script[j].status = "0" )
            => /\ pc = "done"
               /\ last.kind = "return"
               /\ last.body = script[j]
               /\ AttemptsOf(last) = j
               /\ Len(SleepsOf(last)) = j - 1
               /\ last.events[Len(last.events)] = Http(j)

C6_Witness ==
    /\ DirectDone
    /\ max_retries = 3
    /\ script[1].http = "ok"
    /\ script[1].status = "0"
    /\ last.kind = "return"
    /\ last.body.status = "0"
    /\ last.events = <<Http(1)>>

-----------------------------------------------------------------------------
(* C7 *)

\* C7: a call ends with a returned response or with a raised transport error,
\* never with a return that carries no response; when the loop makes no attempt
\* at all (max_retries <= 0) the generic "Max retries exceeded" error is raised.
C7_ReturnOrRaise ==
    DirectDone =>
        /\ \/ /\ pc = "done"
              /\ last.kind = "return"
              /\ last.body.http = "ok"
              /\ last.exc = NoExc
           \/ /\ pc = "raised"
              /\ last.kind = "raise"
              /\ last.body = NoBody
              /\ last.exc \in {MaxRetriesExceeded, AttemptError(max_retries - 1)}
        /\ max_retries <= 0 =>
               /\ last.kind = "raise"
               /\ last.exc = MaxRetriesExceeded
               /\ last.events = <<>>

C7_Witness ==
    /\ DirectDone
    /\ max_retries = 0
    /\ pc = "raised"
    /\ error = MaxRetriesExceeded
    /\ AttemptsOf(last) = 0

-----------------------------------------------------------------------------
(* C8 *)

IsBlockCall(c) == c.action = "getblockreward"

BlockCalls == SelectSeq(log, IsBlockCall)

BlockFetched(c) == c.res.kind = "return" /\ c.res.body.status = "1"

\* the results of the successful fetches of cs, in order
RECURSIVE FetchedResults(_)
FetchedResults(cs) ==
    IF cs = <<>> THEN <<>>
    ELSE (IF BlockFetched(Head(cs)) THEN <<Head(cs).res.body.result>> ELSE <<>>)
         \o FetchedResults(Tail(cs))

\* C8: extract_block_range collects exactly the results of the blocks of
\* start..end whose fetch returned success status, in ascending order, and a
\* non-empty block list is written to a JSON and to a CSV file under blocks.
C8_BlockRange ==
    ( op = "block_range" /\ pc = "done" )
    => /\ Len(BlockCalls) = Max(0, end_block - start_block + 1)
       /\ \A i \in 1 .. Len(BlockCalls) :
             BlockCalls[i].blockno = start_block + i - 1
       /\ acc = FetchedResults(BlockCalls)
       /\ \A i \in 1 .. Len(acc) - 1 : acc[i].number < acc[i + 1].number
       /\ acc # <<>> =>
             files = <<File("json", "blocks", "blocks", acc),
                       File("csv", "blocks", "blocks", acc)>>

\* blocks 100..102, block 101 failing
C8_Witness ==
    /\ op = "block_range"
    /\ pc = "done"
    /\ start_block = 100
    /\ end_block = 102
    /\ FailedPage(BlockCalls[2])
    /\ acc = <<BlockRecord(100), BlockRecord(102)>>
    /\ Len(files) = 2
    /\ files[1].fmt = "json" /\ files[1].subdir = "blocks"
    /\ files[2].fmt = "csv" /\ files[2].subdir = "blocks"

-----------------------------------------------------------------------------
(* C9 *)

\* all but the last element
Front(s) == SubSeq(s, 1, Len(s) - 1)

\* C9: the result is the first cap records (all of them when there are fewer)
\* of the concatenation, in page order, of the good pages, and only records of
\* the last fetched page are dropped.
C9_ResultIsPrefix ==
    AccReturned =>
        /\ acc = FirstN(ConcatGood(PageCalls), cap)
        /\ PageCalls # <<>> => Len(ConcatGood(Front(PageCalls))) <= Len(acc)

C9_Witness ==
    /\ AccReturned
    /\ Len(PageCalls) = 2
    /\ Len(ConcatGood(PageCalls)) = 4
    /\ Len(acc) = 3
    /\ acc = <<<<1, 1>>, <<1, 2>>, <<2, 1>>>>

-----------------------------------------------------------------------------
(* C10 *)

CsvOnlyOfNonEmptyList ==
    \A i \in 1 .. Len(files) : files[i].fmt = "csv" => files[i].data # <<>>

\* C10 as stated: every orchestrator that completes writes its result to a
\* JSON file, also when the result is empty, and a CSV file only for a
\* non-empty list.
C10_JsonAlways ==
    pc = "done" =>
        /\ (op = "account" /\ include_transactions)
              => HasFileWith("json", "transactions", acc)
        /\ op = "token_transfers" => HasFileWith("json", "token_transfers", acc)
        /\ op = "block_range" => HasFileWith("json", "blocks", acc)
        /\ op = "token_holders"
              => HasFileWith("json", "token_holders", HoldersData(aux, acc))
        /\ op = "network_stats" => HasFileWith("json", "network_stats", aux)
        /\ CsvOnlyOfNonEmptyList

\* C10, amended: account transactions and network stats always write their
\* JSON file, also for an empty result; token transfers, block range and token
\* holders write their JSON and CSV files only when the result is non-empty and
\* no file when it is empty; a CSV file is written only for a non-empty list.
C10_JsonWhenSaved ==
    pc = "done" =>
        /\ (op = "account" /\ include_transactions)
              => ( /\ HasFileWith("json", "transactions", acc)
                   /\ HasFile("csv", "transactions") <=> acc # <<>> )
        /\ op = "network_stats"
              => files = <<File("json", "stats", "network_stats", aux)>>
        /\ op = "token_transfers"
              => ( /\ acc # <<>> =>
                         /\ HasFileWith("json", "token_transfers", acc)
                         /\ HasFileWith("csv", "token_transfers", acc)
                   /\ acc = <<>> => files = <<>> )
        /\ op = "block_range"
              => ( /\ acc # <<>> =>
                         /\ HasFileWith("json", "blocks", acc)
                         /\ HasFileWith("csv", "blocks", acc)
                   /\ acc = <<>> => files = <<>> )
        /\ op = "token_holders"
              => ( /\ acc # <<>> =>
                         /\ HasFileWith("json", "token_holders",
                                        HoldersData(aux, acc))
                         /\ HasFileWith("csv", "token_holders", acc)
                   /\ acc = <<>> => files = <<>> )
        /\ CsvOnlyOfNonEmptyList

\* account transactions complete with an empty result and still write the JSON
C10_Witness ==
    /\ op = "account"
    /\ include_transactions
    /\ pc = "done"
    /\ Len(PageCalls) >= 1
    /\ acc = <<>>
    /\ HasFileWith("json", "transactions", <<>>)
    /\ ~HasFile("csv", "transactions")

-----------------------------------------------------------------------------
(* C11 *)

\* position of a key in the sorted order
Rank(k) == CHOOSE i \in 1 .. Len(KeyOrder) : KeyOrder[i] = k

\* C11: _save_csv on a non-empty list writes a header that is the sorted union
\* of the keys of all records, then one row per record in input order, with the
\* record's value under each of its keys and an empty cell under every other
\* column.
C11_CsvHeaderAndRows ==
    ( op = "save_csv" /\ pc = "done" /\ records # <<>> )
    => /\ csv_written.written
       /\ {csv_written.header[k] : k \in 1 .. Len(csv_written.header)}
             = UNION {DOMAIN records[i] : i \in 1 .. Len(records)}
       /\ \A k \in 1 .. Len(csv_written.header) - 1 :
             Rank(csv_written.header[k]) < Rank(csv_written.header[k + 1])
       /\ Len(csv_written.rows) = Len(records)
       /\ \A i \in 1 .. Len(records) :
             /\ Len(csv_written.rows[i]) = Len(csv_written.header)
             /\ \A k \in 1 .. Len(csv_written.header) :
                   LET key == csv_written.header[k]
                   IN  csv_written.rows[i][k] =
                          IF key \in DOMAIN records[i] THEN records[i][key] ELSE ""
       /\ Len(files) = 1
       /\ files[1].fmt = "csv"

\* records {a, b} and {a, c}: header a, b, c and one empty cell in each row
C11_Witness ==
    /\ op = "save_csv"
    /\ pc = "done"
    /\ Len(records) = 2
    /\ DOMAIN records[1] = {"a", "b"}
    /\ DOMAIN records[2] = {"a", "c"}
    /\ csv_written.header = <<"a", "b", "c">>
    /\ csv_written.rows[1] = <<records[1]["a"], records[1]["b"], "">>
    /\ csv_written.rows[2] = <<records[2]["a"], "", records[2]["c"]>>

-----------------------------------------------------------------------------
(* C12 *)

\* the source-code call returned success status with a non-empty result
SourceFound ==
    /\ op = "contract"
    /\ log # <<>>
    /\ log[1].res.kind = "return"
    /\ log[1].res.body.status = "1"
    /\ log[1].res.body.result # <<>>

\* C12: when the source-code response has success status and a non-empty
\* result, the operation returns normally with the full-data JSON file and the
\* source-code file written, whatever the ABI field is, and only the ABI file
\* is omitted when the field is not valid JSON text.
C12_AbiNeverFatal ==
    SourceFound =>
        /\ pc = "done"
        /\ error = NoExc
        /\ HasFile("json", "contract_full")
        /\ HasFile("sol", "source")
        /\ HasFile("abi", "abi") <=> log[1].res.body.result[1].ABI = "valid"

-----------------------------------------------------------------------------
(* C13 *)

\* C13: in the CLI main, an exception raised by the handler (a transport error
\* that exhausted its retries included) and a user interruption each end the
\* process with a non-zero exit status, the interruption with a message of its
\* own, and the process exits with status zero only when the handler returned.
C13_ExitStatus ==
    exited =>
        /\ exit_status = 0 <=> pc = "done"
        /\ pc = "raised" =>
              /\ error # NoExc
              /\ exit_status # 0
              /\ message = "Extraction cancelled by user"
                    <=> error = KeyboardInterrupt
        /\ pc = "done" => message = "Saved files"

C13_Witness ==
    /\ exited
    /\ pc = "raised"
    /\ error = AttemptError(DefaultMaxRetries - 1)
    /\ log # <<>>
    /\ LastCall.res.kind = "raise"
    /\ exit_status = 1
    /\ message = "Error"

-----------------------------------------------------------------------------
(* C14 *)

\* the number of pages of cs that returned success status with a non-empty list
RECURSIVE CountGood(_)
CountGood(cs) ==
    IF cs = <<>> THEN 0
    ELSE (IF GoodPage(Head(cs)) THEN 1 ELSE 0) + CountGood(Tail(cs))

\* C14: the k-th page request of an accumulation carries page number k: the
\* counter starts at 1 and advances by exactly 1 only after a page that
\* returned success status with a non-empty list, so that no page number is
\* requested twice or skipped.
C14_PageNumbers ==
    /\ \A k \in 1 .. Len(PageCalls) : PageCalls[k].page = k
    /\ \A k \in 1 .. Len(PageCalls) - 1 : GoodPage(PageCalls[k])
    /\ (Accumulates /\ pc \in {"loop", "break"})
          => page = 1 + CountGood(PageCalls)

C14_Witness ==
    /\ Len(PageCalls) = 3
    /\ PageCalls[3].page = 3
    /\ GoodPage(PageCalls[1])
    /\ GoodPage(PageCalls[2])
    /\ FailedPage(PageCalls[3])
    /\ page = 3
    /\ pc = "break"

-----------------------------------------------------------------------------
(* C15 *)

\* the number of records accumulated before the k-th page request
CountBefore(k) == Len(ConcatGood(SubSeq(PageCalls, 1, k - 1)))

\* C15: a page request is issued only while the accumulated record count is
\* strictly less than cap, so that no request follows once the count has
\* reached or exceeded cap, and with cap <= 0 the accumulation issues no page
\* request and yields an empty result.
C15_RequestOnlyBelowCap ==
    /\ \A k \in 1 .. Len(PageCalls) : CountBefore(k) < cap
    /\ (Accumulates /\ pc = "loop" /\ Len(acc) >= cap)
          => ~ENABLED FetchPage(IF op = "account" THEN "txlist"
                                ELSE IF op = "token_transfers" THEN "tokentx"
                                ELSE "getTokenHolders")
    /\ (Accumulates /\ cap <= 0)
          => /\ PageCalls = <<>>
             /\ AccReturned => acc = <<>>

C15_Witness ==
    /\ AccReturned
    /\ cap = 2
    /\ Len(PageCalls) = 1
    /\ GoodPage(PageCalls[1])
    /\ Len(PageCalls[1].res.body.result) = cap
    /\ acc = PageCalls[1].res.body.result

-----------------------------------------------------------------------------
(* C16 *)

\* C16: the page size sent in every page request is at least 1 and at most
\* 100: transaction and token-holder requests carry min(100, cap), token-
\* transfer requests carry 100 whatever the cap, and all requests of one
\* accumulation carry the same page size.
C16_PageSize ==
    \A k \in 1 .. Len(PageCalls) :
        /\ PageCalls[k].offset >= 1
        /\ PageCalls[k].offset <= 100
        /\ PageCalls[k].offset = PageCalls[1].offset
        /\ PageCalls[k].action \in {"txlist", "getTokenHolders"}
              => PageCalls[k].offset = Min(100, cap)
        /\ PageCalls[k].action = "tokentx" => PageCalls[k].offset = 100

C16_Witness ==
    /\ op = "account"
    /\ cap > 100
    /\ Len(PageCalls) = 2
    /\ PageCalls[1].offset = 100
    /\ PageCalls[2].offset = 100
    /\ GoodPage(PageCalls[1])
    /\ pc = "break"

-----------------------------------------------------------------------------
(* C17 *)

\* every page after which the loop continued added at least one record
EveryPageAdds ==
    \A k \in 1 .. Len(PageCalls) - 1 : CountBefore(k + 1) > CountBefore(k)

\* C17: for every cap >= 1, when every client call returns or raises, the
\* accumulation (and with it the operation) terminates, and it issues at most
\* cap page requests, because every page after which the loop continues adds
\* at least one record.
C17_Terminates ==
    /\ [](cap >= 1 => Len(PageCalls) <= cap)
    /\ []EveryPageAdds
    /\ cap >= 1 => <>(pc \in {"done", "raised"})

C17_Witness ==
    /\ cap = 2
    /\ Len(PageCalls) = cap
    /\ GoodPage(PageCalls[1])
    /\ GoodPage(PageCalls[2])
    /\ Len(PageCalls[1].res.body.result) = 1
    /\ pc = "done"

-----------------------------------------------------------------------------
(* C18 *)

\* C18: extract_block_range issues one request per block number of
\* start..end, in ascending order and none twice, max(0, end - start + 1)
\* requests in all when it returns; a failure status on a block neither stops
\* the iteration nor makes the block be requested again, and when start > end
\* no request is issued and no file is written.
C18_OneRequestPerBlock ==
    /\ \A i \in 1 .. Len(BlockCalls) :
          /\ BlockCalls[i].blockno = start_block + i - 1
          /\ BlockCalls[i].blockno <= end_block
    /\ \A i \in 1 .. Len(BlockCalls) - 1 : BlockCalls[i].res.kind = "return"
    /\ (op = "block_range" /\ pc = "done")
          => Len(BlockCalls) = Max(0, end_block - start_block + 1)
    /\ (op = "block_range" /\ pc = "loop" /\ BlockCalls # <<>>)
          => /\ block_num = LastCall.blockno + 1
             /\ (FailedPage(LastCall) /\ block_num <= end_block)
                   => ENABLED FetchBlock
    /\ (op = "block_range" /\ start_block > end_block)
          => BlockCalls = <<>> /\ files = <<>>

\* blocks 100..102, block 100 failing and the two after it requested once each
C18_Witness ==
    /\ op = "block_range"
    /\ pc = "done"
    /\ start_block = 100
    /\ end_block = 102
    /\ Len(BlockCalls) = 3
    /\ FailedPage(BlockCalls[1])
    /\ BlockCalls[2].blockno = 101
    /\ BlockCalls[3].blockno = 102
    /\ acc = <<BlockRecord(101), BlockRecord(102)>>

-----------------------------------------------------------------------------
(* C19 *)

\* the files an accumulation writes its records to
AccumulationFiles == {"transactions", "token_transfers", "token_holders"}

\* C19: when a page request raises a transport error after its retries are
\* exhausted, the error propagates out of the extraction operation and the
\* records accumulated from earlier pages are written to no file, while the
\* balance JSON that extract_account_data wrote before the accumulation
\* remains written.
C19_ErrorPropagates ==
    \A k \in 1 .. Len(log) :
        (IsPageCall(log[k]) /\ log[k].res.kind = "raise")
        => /\ k = Len(log)
           /\ pc = "raised"
           /\ error = log[k].res.exc
           /\ error = AttemptError(max_retries - 1)
           /\ \A i \in 1 .. Len(files) : files[i].name \notin AccumulationFiles
           /\ op = "account"
                 => files = <<File("json", "account", "balance", log[1].res.body)>>
           /\ exited => exit_status # 0

\* page 1 gave records, page 2 raised
C19_Witness ==
    /\ op = "account"
    /\ Len(PageCalls) = 2
    /\ GoodPage(PageCalls[1])
    /\ PageCalls[2].res.kind = "raise"
    /\ acc # <<>>
    /\ pc = "raised"
    /\ Len(files) = 1
    /\ HasFile("json", "balance")

-----------------------------------------------------------------------------
(* C20 *)

\* C20: two runs of the same accumulation that got the same responses on
\* pages 1..k-1 and differ only in page k, a status "0" failure in one and a
\* success with an empty list in the other, hold the same record sequence and
\* have written the same files, at the same position, from that page on and
\* when they return: the result does not tell a failure from the end of data.
C20_FailureLooksLikeEnd ==
    twin.on =>
        /\ ends_without_data(PageCalls[Len(PageCalls)].res)
        /\ twin.pc = pc
        /\ twin.acc = acc
        /\ twin.page = page
        /\ twin.files = files

\* page 1 gave records, page 2 failed with a body that carries a record; the
\* second run got an empty page 2
C20_Witness ==
    /\ twin.on
    /\ op = "account"
    /\ pc = "done"
    /\ Len(PageCalls) = 2
    /\ GoodPage(PageCalls[1])
    /\ FailedPage(PageCalls[2])
    /\ PageCalls[2].res.body.result # <<>>
    /\ twin.acc = PageCalls[1].res.body.result
    /\ HasFileWith("csv", "transactions", twin.acc)
    /\ twin.files = files

-----------------------------------------------------------------------------
(* C21 *)

\* C21: in every subcommand handler the client session is closed exactly
\* once on every exit path of the extraction, when it returned and when it
\* raised (transport error or interruption), and no API request is issued
\* after the session was closed.
C21_ClosedOnce ==
    /\ [](/\ closed <= 1
          /\ scope = "left" => closed = 1
          /\ scope = "with" => closed = 0
          /\ exited => closed = 1)
    /\ [][closed >= 1 => log' = log /\ closed' = closed]_vars

\* a page request raised after its retries, the session was closed, then main
\* ended the process
C21_Witness ==
    /\ op = "token_transfers"
    /\ pc = "raised"
    /\ error = AttemptError(DefaultMaxRetries - 1)
    /\ Len(PageCalls) = 2
    /\ scope = "left"
    /\ closed = 1
    /\ exited

====
